---- MODULE Spec2Model ----
(***************************************************************************)
(* State-machine model of the BOB e-mail assistant backend: the per-user   *)
(* Gmail credential store (gmail_service.py), the quota gate (models.py)   *)
(* and the analysis orchestrator (app.py, analyze_emails).                 *)
(*                                                                         *)
(* One user is modelled.  The database row of the user and the             *)
(* email_analyses table are the shared state; every HTTP request works on  *)
(* its own ORM session, i.e. on a private copy of the row loaded by        *)
(* User.query.get, and writes back absolute values on commit.  A commit or *)
(* rollback expires the copy, and the next attribute access reloads it.    *)
(*                                                                         *)
(* A handler is cut into steps where it waits for the network (token       *)
(* refresh, mailbox and inference calls) or reaches the database; a step   *)
(* is atomic.  Spec runs the requests of the user one after the other,     *)
(* SpecConc lets two of them overlap.                                      *)
(*                                                                         *)
(* Whether an access token is valid or expired is the answer of the        *)
(* credential library (creds.valid, creds.expired); the model keeps it as  *)
(* a flag of the record that the passing of time (Expire) clears.          *)
(* Messages are their transport ids, 1..n for a mailbox of n messages.     *)
(***************************************************************************)
EXTENDS Integers, Sequences, FiniteSets, TLC

\* ------------------------------------------------------------ bounds
MaxMailbox == 12      \* size of the largest mailbox the transport returns
MaxStarts  == 2       \* analyze requests started in one run
MaxTokens  == 3       \* access tokens the authorization server issues in one run
MaxBatch   == 3       \* messages in a batch handed to the profiler on its own
MaxSelected == 3      \* messages in a batch handed to analyze_email_batch on its own
MaxRecords == 11      \* records in the list the statistics are computed from
MaxEvents  == 2       \* Stripe events the webhook handles in one run

\* ------------------------------------------------- program constants
HardCap         == 10      \* min(data.get('maxResults', 5), 10)
DefaultCount    == 5       \* data.get('maxResults', 5)
FetchWindow     == 50      \* fetch_emails(service, max_results=50)
FreeLimit       == 10
ProLimit        == 500
EnterpriseLimit == 10000

Tiers   == {"free", "pro", "enterprise", "trial"}
Reqs    == {"r1", "r2"}      \* request slots (two overlapping HTTP requests)
SeqReqs == {"r1"}            \* the slot used when requests do not overlap

\* maxResults values a client sends; DefaultCount stands for an absent key
Counts     == {-1, 0, DefaultCount, HardCap + 1}
ConcCounts == {1}
\* mailbox sizes the list call finds
Sizes      == {0, 2, MaxMailbox}
ConcSizes  == {2}

Min(a, b) == IF a < b THEN a ELSE b
Max(a, b) == IF a > b THEN a ELSE b

VARIABLES
    subscription_tier,            \* users.subscription_tier
    emails_analyzed_this_month,   \* users.emails_analyzed_this_month
    total_emails_analyzed,        \* users.total_emails_analyzed
    gmail_credentials,            \* users.gmail_credentials (the credential record)
    analyses,                     \* email_analyses rows of the user, in insertion order
    issued,                       \* access tokens issued so far by the token endpoint
    started,                      \* analyze requests started so far
    connected,                    \* the last /api/gmail/callback answered 200, connected
    req,                          \* per request slot: the handler's position and locals
    profiler,                     \* analyze_email_patterns run on its own: batch, position, profiles
    engine,                       \* one message through the two inference functions and the merge
    batch,                        \* analyze_email_batch run on its own: batch, position, output
    report,                       \* the statistics block computed from a list of records
    exporter,                     \* export_analysis run on its own: record, format, content
    header,                       \* the From/Subject normalisation of fetch_emails on its own
    subscription_status,          \* users.subscription_status
    webhook                       \* Stripe events handled so far and the type of the last one

\* The state of the analyze endpoint and of the user row it works on.
endpoint == <<subscription_tier, emails_analyzed_this_month, total_emails_analyzed,
              gmail_credentials, analyses, issued, started, connected, req>>

\* The state of the functions that are also exercised on their own.
units == <<profiler, engine, batch, report, exporter, header>>

\* The subscription state the Stripe webhook works on.
billing == <<subscription_status, webhook>>

vars == <<endpoint, units, billing>>

\* A function that is not exercised in the specification at hand.
Unused == [pc |-> "unused"]

\* ------------------------------------------------------ models.py
get_usage_limit(tier) ==
    CASE tier = "free"       -> FreeLimit
      [] tier = "pro"        -> ProLimit
      [] tier = "enterprise" -> EnterpriseLimit
      [] OTHER               -> FreeLimit

can_analyze_email_inclusive(month, tier) == month <= get_usage_limit(tier)

can_analyze_email(month, tier) == month < get_usage_limit(tier)

\* ------------------------------------------------ credential record
\* stored = FALSE is the NULL column.  valid is creds.valid (an access token
\* that has not expired); a record that is not valid is expired.
NoCredentials ==
    [stored |-> FALSE, token |-> 0, refresh_token |-> FALSE, valid |-> FALSE]

Credentials(token, refresh_token) ==
    [stored |-> TRUE, token |-> token, refresh_token |-> refresh_token, valid |-> TRUE]

\* The branch get_gmail_service takes on a loaded record.
CredentialBranch_refresh_first(c) ==
    CASE ~c.stored                   -> "none"
      [] c.refresh_token             -> "refresh"
      [] c.valid                     -> "valid"
      [] OTHER                       -> "dead"

CredentialBranch(c) ==
    CASE ~c.stored                   -> "none"
      [] c.valid                     -> "valid"
      [] ~c.valid /\ c.refresh_token -> "refresh"
      [] OTHER                       -> "dead"

\* ------------------------------------------------------- responses
NoResponse ==
    [status |-> 0, error |-> "", action |-> "", limit |-> 0, used |-> 0, totalEmails |-> 0]

QuotaExceeded(limit, used) ==
    [status |-> 429, error |-> "Usage limit reached", action |-> "",
     limit |-> limit, used |-> used, totalEmails |-> 0]

RequiresAuthorization ==
    [status |-> 400, error |-> "Gmail not connected", action |-> "connect_gmail",
     limit |-> 0, used |-> 0, totalEmails |-> 0]

ServerError ==
    [status |-> 500, error |-> "exception", action |-> "",
     limit |-> 0, used |-> 0, totalEmails |-> 0]

BatchResult(n) ==
    [status |-> 200, error |-> "", action |-> "", limit |-> 0, used |-> 0, totalEmails |-> n]

\* ---------------------------------------------------- request slot
IdleRequest ==
    [pc           |-> "idle",
     serial       |-> 0,          \* which request of the run this is (1, 2, ...)
     maxResults   |-> 0,          \* the requested count
     month        |-> 0,          \* session copy of emails_analyzed_this_month
     total        |-> 0,          \* session copy of total_emails_analyzed
     loaded       |-> FALSE,      \* the session copy is current (not expired by a commit)
     creds        |-> NoCredentials,  \* the Credentials object of get_gmail_service
     listed       |-> 0,          \* messages the list call returned
     getFailed    |-> 0,          \* the message whose get call raised (0: none)
     emails       |-> << >>,      \* fetch_emails result (message ids)
     passed       |-> << >>,      \* emails_to_analyze
     analyzed     |-> << >>,      \* analyze_email_batch result (message ids)
     listCalls    |-> 0,          \* mailbox list calls made
     inferred     |-> 0,          \* messages handed to the inference service
     refreshCalls |-> 0,          \* creds.refresh calls made
     saved        |-> FALSE,      \* the refreshed record was committed
     committed    |-> FALSE,      \* db.session.commit() of line 245 succeeded
     failure      |-> "",         \* the step of the request that failed ("": none)
     resp         |-> NoResponse]

\* A registered user: any tier, the monthly counter fresh (free tier), one short
\* of the tier's limit or at it; no Gmail account connected yet.
Start(tiers, months) ==
    /\ subscription_tier \in tiers
    /\ emails_analyzed_this_month \in
          { m \in months \cup { get_usage_limit(subscription_tier) - 1,
                                get_usage_limit(subscription_tier) } :
              m = 0 => subscription_tier = "free" }
    /\ total_emails_analyzed = emails_analyzed_this_month
    /\ gmail_credentials = NoCredentials
    /\ analyses = << >>
    /\ issued = 0
    /\ started = 0
    /\ connected = FALSE
    /\ req = [r \in Reqs |-> IdleRequest]
    /\ subscription_status = "active"
    /\ webhook = [handled |-> 0, type |-> ""]

Init == Start(Tiers, {0}) /\ profiler = Unused /\ engine = Unused
                          /\ batch = Unused /\ report = Unused
                          /\ exporter = Unused /\ header = Unused

\* ------------------------------------------------ gmail_service.py
\* The ids the list call returns for a mailbox of n messages: the most recent
\* max_results of them, here numbered 1..n.
ListMessages(n) == [i \in 1..Min(n, FetchWindow) |-> i]

Without(s, x) == SelectSeq(s, LAMBDA m : m # x)

fetch_emails_stop_at_failure(n, skip) ==
    IF skip \in 1..Len(ListMessages(n)) THEN SubSeq(ListMessages(n), 1, skip - 1)
    ELSE ListMessages(n)

\* fetch_emails: the listed messages in order, the one whose get call raised
\* (skip, 0 for none) left out.
fetch_emails(n, skip) == Without(ListMessages(n), skip)

\* --------------------------------------------------- ai_service.py
\* analyze_email_batch: one entry per message, in order; a message whose
\* processing raised (failed, 0 for none) is left out.
analyze_email_batch(emails, failed) == Without(emails, failed)

\* ----------------------------------------------------------- app.py
\* emails[:k] with Python's slice semantics (a negative k counts from the end).
PySlice(s, k) ==
    IF k >= 0 THEN SubSeq(s, 1, Min(k, Len(s)))
              ELSE SubSeq(s, 1, Max(Len(s) + k, 0))

max_results(requested) == Min(requested, HardCap)

emails_to_analyze(emails, requested) == PySlice(emails, max_results(requested))

Set(r, new) == req' = [req EXCEPT ![r] = new]

\* The handler returns: its locals are gone, the response and what it did remain.
Return(me, resp) ==
    [me EXCEPT !.pc = "done", !.resp = resp,
               !.listed = 0, !.getFailed = 0,
               !.emails = << >>, !.passed = << >>, !.analyzed = << >>]

\* analyze_emails, lines 172-193: load the user, check the quota, resolve the
\* Gmail session up to the point where a refresh (a network call) is needed.
Begin(r, counts) ==
    /\ req[r].pc \in {"idle", "done"}
    /\ started < MaxStarts
    /\ started' = started + 1
    /\ \E k \in counts :
         LET me == [IdleRequest EXCEPT !.serial = started + 1,
                                       !.maxResults = k,
                                       !.month = emails_analyzed_this_month,
                                       !.total = total_emails_analyzed,
                                       !.loaded = TRUE,
                                       !.creds = gmail_credentials]
             branch == CredentialBranch(gmail_credentials)
         IN  IF ~can_analyze_email(emails_analyzed_this_month, subscription_tier)
             THEN Set(r, Return([me EXCEPT !.failure = "quota"],
                                QuotaExceeded(get_usage_limit(subscription_tier),
                                              emails_analyzed_this_month)))
             ELSE CASE branch = "valid"   -> Set(r, [me EXCEPT !.pc = "fetch"])
                    [] branch = "refresh" -> Set(r, [me EXCEPT !.pc = "refresh"])
                    [] OTHER -> Set(r, Return([me EXCEPT !.failure = "credential"],
                                               RequiresAuthorization))
    /\ UNCHANGED <<units, billing>>
    /\ UNCHANGED <<subscription_tier, emails_analyzed_this_month, total_emails_analyzed,
                   gmail_credentials, analyses, issued, connected>>

\* get_gmail_service, lines 43-44: creds.refresh(Request()) returns a new token.
RefreshOk(r) ==
    /\ req[r].pc = "refresh"
    /\ issued < MaxTokens
    /\ issued' = issued + 1
    /\ Set(r, [req[r] EXCEPT !.pc = "save",
                             !.refreshCalls = @ + 1,
                             !.creds = Credentials(issued + 1, req[r].creds.refresh_token)])
    /\ UNCHANGED <<units, billing>>
    /\ UNCHANGED <<subscription_tier, emails_analyzed_this_month, total_emails_analyzed,
                   gmail_credentials, analyses, started, connected>>

\* get_gmail_service, lines 48-50, and analyze_emails, lines 189-193: the refresh
\* raised; None is returned and the request answers 'Gmail not connected'.
RefreshFail(r) ==
    /\ req[r].pc = "refresh"
    /\ Set(r, Return([req[r] EXCEPT !.refreshCalls = @ + 1, !.failure = "credential"],
                     RequiresAuthorization))
    /\ UNCHANGED <<units, billing>>
    /\ UNCHANGED <<subscription_tier, emails_analyzed_this_month, total_emails_analyzed,
                   gmail_credentials, analyses, issued, started, connected>>

\* save_gmail_credentials: the record a commit stores, the old one after a
\* rollback (the exception is swallowed either way).
save_gmail_credentials(old, creds, commitOk) == IF commitOk THEN creds ELSE old

\* get_gmail_service, lines 46-47: save the refreshed record and build the service.
\* The commit (or the rollback) expires the session's copy of the user row.
SaveRefreshed(r) ==
    /\ req[r].pc = "save"
    /\ \E commitOk \in BOOLEAN :
         /\ gmail_credentials' =
                save_gmail_credentials(gmail_credentials, req[r].creds, commitOk)
         /\ Set(r, [req[r] EXCEPT !.pc = "fetch", !.loaded = FALSE, !.saved = commitOk])
    /\ UNCHANGED <<units, billing>>
    /\ UNCHANGED <<subscription_tier, emails_analyzed_this_month, total_emails_analyzed,
                   analyses, issued, started, connected>>

\* analyze_emails, lines 200-201 and 271-274: the list call raised.
FetchFail(r) ==
    /\ req[r].pc = "fetch"
    /\ Set(r, Return([req[r] EXCEPT !.listCalls = @ + 1, !.failure = "fetch"],
                     ServerError))
    /\ UNCHANGED <<units, billing>>
    /\ UNCHANGED <<subscription_tier, emails_analyzed_this_month, total_emails_analyzed,
                   gmail_credentials, analyses, issued, started, connected>>

\* analyze_emails, lines 195-243: fetch, profile, select, analyze, add the rows
\* to the session and raise the session copy of the counters (line 234 reloads
\* the row first when a commit has expired it).
Analyze(r, sizes) ==
    /\ req[r].pc = "fetch"
    /\ \E n \in sizes : \E skip \in {0, 1} : \E failFirst \in BOOLEAN :
         LET emails   == fetch_emails(n, skip)
             passed   == emails_to_analyze(emails, req[r].maxResults)
             failed   == IF failFirst /\ passed # << >> THEN passed[1] ELSE 0
             analyzed == analyze_email_batch(passed, failed)
         IN  Set(r, [req[r] EXCEPT
                        !.pc = "commit",
                        !.listCalls = @ + 1,
                        !.listed = Len(ListMessages(n)),
                        !.getFailed = IF skip <= Len(ListMessages(n)) THEN skip ELSE 0,
                        !.emails = emails,
                        !.passed = passed,
                        !.inferred = Len(passed),
                        !.analyzed = analyzed,
                        !.month = IF req[r].loaded THEN @ ELSE emails_analyzed_this_month,
                        !.total = IF req[r].loaded THEN @ ELSE total_emails_analyzed,
                        !.loaded = TRUE])
    /\ UNCHANGED <<units, billing>>
    /\ UNCHANGED <<subscription_tier, emails_analyzed_this_month, total_emails_analyzed,
                   gmail_credentials, analyses, issued, started, connected>>

\* analyze_emails, lines 247-269: the statistics divide by len(analyzed_emails).
Respond(n) == IF n = 0 THEN ServerError ELSE BatchResult(n)

\* analyze_emails, lines 245-269: the commit writes the rows and the session's
\* counter values; the response follows.
CommitOk(r) ==
    /\ req[r].pc = "commit"
    /\ LET n == Len(req[r].analyzed)
       IN  /\ analyses' = analyses \o req[r].analyzed
           /\ emails_analyzed_this_month' = req[r].month + n
           /\ total_emails_analyzed' = req[r].total + n
           /\ Set(r, Return([req[r] EXCEPT !.committed = TRUE,
                                           !.failure = IF n = 0 THEN "statistics" ELSE ""],
                            Respond(n)))
    /\ UNCHANGED <<units, billing>>
    /\ UNCHANGED <<subscription_tier, gmail_credentials, issued, started, connected>>

CommitFail_counters_kept(r) ==
    /\ req[r].pc = "commit"
    /\ emails_analyzed_this_month' = req[r].month + Len(req[r].analyzed)
    /\ total_emails_analyzed' = req[r].total + Len(req[r].analyzed)
    /\ Set(r, Return([req[r] EXCEPT !.failure = "persistence"], ServerError))
    /\ UNCHANGED <<units, billing>>
    /\ UNCHANGED <<subscription_tier, gmail_credentials, analyses, issued, started,
                   connected>>

\* analyze_emails, lines 245 and 271-274: the commit raised; rollback, 500.
CommitFail(r) ==
    /\ req[r].pc = "commit"
    /\ Set(r, Return([req[r] EXCEPT !.failure = "persistence"], ServerError))
    /\ UNCHANGED <<units, billing>>
    /\ UNCHANGED <<subscription_tier, emails_analyzed_this_month, total_emails_analyzed,
                   gmail_credentials, analyses, issued, started, connected>>

\* gmail_callback without a code or flow data (400), or complete_gmail_oauth
\* raising on the token exchange (500).
ConnectRejected ==
    /\ connected' = FALSE
    /\ UNCHANGED <<units, billing>>
    /\ UNCHANGED <<subscription_tier, emails_analyzed_this_month, total_emails_analyzed,
                   gmail_credentials, analyses, issued, started, req>>

\* gmail_callback, lines 129-134, with complete_gmail_oauth, lines 117-135: the
\* exchange returned an access token (and maybe a refresh token); the record is
\* saved and 'Gmail connected successfully' is answered.
Connect ==
    /\ issued < MaxTokens
    /\ issued' = issued + 1
    /\ \E refresh_token \in BOOLEAN : \E commitOk \in BOOLEAN :
         gmail_credentials' = save_gmail_credentials(
             gmail_credentials, Credentials(issued + 1, refresh_token), commitOk)
    /\ connected' = TRUE
    /\ UNCHANGED <<units, billing>>
    /\ UNCHANGED <<subscription_tier, emails_analyzed_this_month, total_emails_analyzed,
                   analyses, started, req>>

\* The stored access token reaches its expiry.
Expire ==
    /\ gmail_credentials.stored
    /\ gmail_credentials.valid
    /\ gmail_credentials' = [gmail_credentials EXCEPT !.valid = FALSE]
    /\ UNCHANGED <<units, billing>>
    /\ UNCHANGED <<subscription_tier, emails_analyzed_this_month, total_emails_analyzed,
                   analyses, issued, started, connected, req>>

Environment == Connect \/ ConnectRejected \/ Expire

\* Requests of the user that do not overlap.
Next ==
    \/ \E r \in SeqReqs :
         \/ Begin(r, Counts)
         \/ RefreshOk(r)
         \/ RefreshFail(r)
         \/ SaveRefreshed(r)
         \/ FetchFail(r)
         \/ Analyze(r, Sizes)
         \/ CommitOk(r)
         \/ CommitFail(r)
    \/ Environment

Spec == Init /\ [][Next]_vars

\* Two requests of the user that may overlap.
NextConc ==
    \/ \E r \in Reqs :
         \/ Begin(r, ConcCounts)
         \/ RefreshOk(r)
         \/ RefreshFail(r)
         \/ SaveRefreshed(r)
         \/ FetchFail(r)
         \/ Analyze(r, ConcSizes)
         \/ CommitOk(r)
         \/ CommitFail(r)
    \/ Environment

InitConc == Start({"free"}, {0}) /\ profiler = Unused /\ engine = Unused
                                 /\ batch = Unused /\ report = Unused
                                 /\ exporter = Unused /\ header = Unused

SpecConc == InitConc /\ [][NextConc]_vars

\* ================================================================ claims
\* The step in which request slot r starts: analyze is invoked.
Invoked(r) == started' = started + 1 /\ req'[r].serial = started'

\* The tier limits as the specification states them.
TierLimit(tier) ==
    IF tier = "pro" THEN 500 ELSE IF tier = "enterprise" THEN 10000 ELSE 10

\* The request made no mailbox call, no inference call and no refresh, and
\* committed nothing.
NothingDone(q) ==
    q.listCalls = 0 /\ q.inferred = 0 /\ q.refreshCalls = 0 /\ ~q.committed /\ ~q.saved

\* C1: analyze invoked for a user whose monthly counter has reached the tier
\* limit (free 10, pro 500, enterprise 10000, any other tier 10) is rejected
\* with QuotaExceeded (429 carrying limit and used); in that request there is no
\* mailbox fetch, no inference call, no new Analysis Record, and both usage
\* counters are unchanged.
C1_QuotaGate ==
    [][ \A r \in Reqs :
          ( Invoked(r)
            /\ emails_analyzed_this_month >= TierLimit(subscription_tier) )
          => /\ req'[r].pc = "done"
             /\ req'[r].resp.status = 429
             /\ req'[r].resp.limit = TierLimit(subscription_tier)
             /\ req'[r].resp.used = emails_analyzed_this_month
             /\ NothingDone(req'[r])
             /\ analyses' = analyses
             /\ emails_analyzed_this_month' = emails_analyzed_this_month
             /\ total_emails_analyzed' = total_emails_analyzed ]_vars

\* A request of a pro user at 500 analysed e-mails has been rejected.
C1_Witness ==
    \E r \in Reqs :
      /\ req[r].pc = "done"
      /\ req[r].resp.status = 429
      /\ req[r].resp.used = 500
      /\ subscription_tier = "pro"

RefreshRaised(r) == req[r].pc = "refresh" /\ req'[r].pc = "done"

\* The step in which request r saves its refreshed record.
RefreshSaved(r) == req[r].pc = "save" /\ req'[r].pc = "fetch"

\* C3: for a stored record that is expired and has a refresh token,
\* get_gmail_service attempts exactly one refresh; when it succeeds the updated
\* record is persisted and a handle returned; when it fails the stored record is
\* discarded and RequiresAuthorization is signalled.
C3_RefreshOrDiscard ==
    [][ \A r \in Reqs :
          /\ RefreshRaised(r)
               => /\ req'[r].refreshCalls = 1
                  /\ req'[r].resp = RequiresAuthorization
                  /\ ~gmail_credentials'.stored
          /\ RefreshSaved(r)
               => /\ req'[r].refreshCalls = 1
                  /\ gmail_credentials' = req[r].creds ]_vars

\* C4: for a stored record whose access token is valid, get_gmail_service
\* returns a session handle without attempting a refresh (no token is issued)
\* and leaves the stored record unchanged.
C4_ValidTokenNoRefresh ==
    [][ \A r \in Reqs :
          ( Invoked(r)
            /\ emails_analyzed_this_month < TierLimit(subscription_tier)
            /\ gmail_credentials.stored
            /\ gmail_credentials.valid )
          => /\ req'[r].pc = "fetch"
             /\ req'[r].refreshCalls = 0
             /\ issued' = issued
             /\ gmail_credentials' = gmail_credentials ]_vars

\* A request holds a session handle built from the stored valid record, which
\* has a refresh token, and made no refresh.
C4_Witness ==
    \E r \in Reqs :
      /\ req[r].pc = "fetch"
      /\ req[r].refreshCalls = 0
      /\ gmail_credentials.valid
      /\ gmail_credentials.refresh_token
      /\ req[r].creds = gmail_credentials

\* C5: after get_gmail_service ran on a dead record (no valid access token, no
\* refresh token) the record is no longer stored and RequiresAuthorization is
\* signalled.
C5_DeadRecordDiscarded ==
    [][ \A r \in Reqs :
          ( Invoked(r)
            /\ emails_analyzed_this_month < TierLimit(subscription_tier)
            /\ gmail_credentials.stored
            /\ ~gmail_credentials.valid
            /\ ~gmail_credentials.refresh_token )
          => /\ req'[r].resp = RequiresAuthorization
             /\ ~gmail_credentials'.stored ]_vars

\* The step in which /api/gmail/callback answers 'Gmail connected successfully':
\* the exchange issued a token and complete_gmail_oauth returned.
ConnectReported == connected' /\ issued' = issued + 1 /\ req' = req

\* C6: whenever complete_gmail_oauth reports success, the stored credential
\* record holds the newly issued tokens (a valid access token, so that the next
\* get_gmail_service returns a handle); a record that could not be persisted
\* is not reported as success.
C6_ConnectPersists ==
    [][ ConnectReported
          => /\ gmail_credentials'.stored
             /\ gmail_credentials'.token = issued'
             /\ gmail_credentials'.valid
             /\ CredentialBranch(gmail_credentials') = "valid" ]_vars

\* The first k messages of s, none for k <= 0.
FirstMessages(s, k) == SubSeq(s, 1, Min(Max(k, 0), Len(s)))

\* C7: for every requested count (zero and negative included) the messages
\* passed to the Recommendation Engine are the first min(requestedCount, 10)
\* messages of the fetched window (fewer if the window is shorter), so no
\* request analyses more than 10 messages.
C7_HardCap ==
    \A r \in Reqs :
      req[r].pc = "commit"
      => /\ req[r].passed = FirstMessages(req[r].emails, Min(req[r].maxResults, 10))
         /\ Len(req[r].passed) <= 10
         /\ req[r].inferred <= 10

\* The step in which the commit of request r's batch succeeds, or raises.
Committed(r) == req[r].pc = "commit" /\ req'[r].pc = "done" /\ req'[r].committed
CommitRaised(r) == req[r].pc = "commit" /\ req'[r].pc = "done" /\ ~req'[r].committed

\* C8: records and counters change together: on success both counters grow by
\* exactly the number of Analysis Records the request created; if persistence
\* fails the request reports an error and neither a record nor a counter change
\* of the request is stored.
C8_RecordsAndCountersTogether ==
    [][ \A r \in Reqs :
          /\ Committed(r)
               => /\ analyses' = analyses \o req[r].analyzed
                  /\ emails_analyzed_this_month' - emails_analyzed_this_month
                        = Len(analyses') - Len(analyses)
                  /\ total_emails_analyzed' - total_emails_analyzed
                        = Len(analyses') - Len(analyses)
          /\ CommitRaised(r)
               => /\ req'[r].resp.status = 500
                  /\ analyses' = analyses
                  /\ emails_analyzed_this_month' = emails_analyzed_this_month
                  /\ total_emails_analyzed' = total_emails_analyzed ]_vars

\* C9: two overlapping requests never both act on the same stale counter: the
\* counter value a request was admitted with and adds its batch to is still the
\* stored one when the request commits, so no increment is lost.
C9_NoStaleCounter ==
    [][ \A r \in Reqs :
          Committed(r) => req[r].month = emails_analyzed_this_month ]_vars

\* C10: refresh is mutually exclusive per user: once overlapping requests have
\* saved their refreshed records, the stored record holds the token of the last
\* refresh performed; a later-issued token is never overwritten by an earlier one.
C10_LastRefreshWins ==
    \A r \in Reqs :
      req[r].saved => gmail_credentials.token >= req[r].creds.token

\* ------------------------------------------------- supporting properties
\* C2, the case the code satisfies: with the monthly counter below the tier
\* limit, analyze for a user with no stored record answers RequiresAuthorization
\* and does nothing else.
C2_BelowLimit ==
    [][ \A r \in Reqs :
          ( Invoked(r)
            /\ ~gmail_credentials.stored
            /\ emails_analyzed_this_month < TierLimit(subscription_tier) )
          => /\ req'[r].pc = "done"
             /\ req'[r].resp = RequiresAuthorization
             /\ NothingDone(req'[r])
             /\ analyses' = analyses
             /\ emails_analyzed_this_month' = emails_analyzed_this_month
             /\ total_emails_analyzed' = total_emails_analyzed ]_vars

\* C7, the case the code satisfies: for a requested count >= 0 the messages
\* passed on are the first min(requestedCount, 10) of the fetched window.
C7_NonNegativeCount ==
    \A r \in Reqs :
      ( req[r].pc = "commit" /\ req[r].maxResults >= 0 )
      => /\ req[r].passed = FirstMessages(req[r].emails, Min(req[r].maxResults, 10))
         /\ Len(req[r].passed) <= 10

\* A request with a negative count has handed more than 10 messages to the
\* inference service.
C7_OverCap == \E r \in Reqs : req[r].inferred > 10

\* =========================================== gmail_service.py: the profiler
\* From addresses, subjects and Date header values of the messages of a batch.
\* fetch_emails stores '' for a message without a Date header.
Senders == {"ann@example.com", "bob@example.com"}

Subjects == {"Quarterly report", "(No Subject)"}

TuesdayMorning == "Tue, 03 Nov 2026 09:30:00 +0000"

FridayEvening == "Fri, 06 Nov 2026 17:05:00 +0000"

Dates == {"", "next week sometime", TuesdayMorning, FridayEvening}

Messages == [sender : Senders, subject : Subjects, date : Dates]

\* Every batch of at most n messages.
Batches(n) == UNION { [1..k -> Messages] : k \in 0..n }

\* email.utils.parsedate_to_datetime with the fields the profiler reads from
\* its result; it raises on a string that is not an RFC 2822 date (the empty
\* string included).
parsedate_to_datetime(date_str) ==
    CASE date_str = TuesdayMorning ->
             [raised |-> FALSE, hour |-> 9, day |-> "Tuesday",
              timestamp |-> "2026-11-03T09:30:00+00:00"]
      [] date_str = FridayEvening ->
             [raised |-> FALSE, hour |-> 17, day |-> "Friday",
              timestamp |-> "2026-11-06T17:05:00+00:00"]
      [] OTHER ->
             [raised |-> TRUE, hour |-> 0, day |-> "", timestamp |-> ""]

SentTime(t) == [hour |-> t.hour, day |-> t.day, timestamp |-> t.timestamp]

\* defaultdict(lambda: {'sent_times': [], 'topics': []}): reading profiles[s]
\* creates the entry of a sender that has none.
Touch(profiles, s) ==
    IF s \in DOMAIN profiles THEN profiles
    ELSE profiles @@ (s :> [sent_times |-> << >>, topics |-> << >>])

AppendSentTime(profiles, s, t) ==
    LET p == Touch(profiles, s)
    IN  [p EXCEPT ![s].sent_times = Append(@, SentTime(t))]

AppendTopic_distinct(profiles, s, subject) ==
    LET p == Touch(profiles, s)
    IN  IF \E i \in 1..Len(p[s].topics) : p[s].topics[i] = subject THEN p
        ELSE [p EXCEPT ![s].topics = Append(@, subject)]

AppendTopic(profiles, s, subject) ==
    LET p == Touch(profiles, s)
    IN  [p EXCEPT ![s].topics = Append(@, subject)]

\* One iteration of the loop of backend/gmail_service.py analyze_email_patterns:
\* the date is parsed only when it is not empty, the subject is appended in
\* both cases; an exception of the parse leaves the profiles as they were.
PatternStep(profiles, email) ==
    LET t == parsedate_to_datetime(email.date)
    IN  IF email.date # ""
        THEN IF t.raised THEN profiles
             ELSE AppendTopic(AppendSentTime(profiles, email.sender, t),
                              email.sender, email.subject)
        ELSE AppendTopic(profiles, email.sender, email.subject)

\* One iteration of the loop of api_server.py analyze_email_patterns: the date
\* is parsed whatever it is.
PatternStepStandalone(profiles, email) ==
    LET t == parsedate_to_datetime(email.date)
    IN  IF t.raised THEN profiles
        ELSE AppendTopic(AppendSentTime(profiles, email.sender, t),
                         email.sender, email.subject)

NoProfiles == [s \in {} |-> [sent_times |-> << >>, topics |-> << >>]]

Implementations == {"backend", "api_server"}

\* A fresh free-tier user with no request in progress.
Registered == Start({"free"}, {0}) /\ emails_analyzed_this_month = 0

\* analyze_email_patterns is about to start on a batch.
InitProfiler ==
    /\ Registered
    /\ \E impl \in Implementations, emails \in Batches(MaxBatch) :
          profiler = [pc |-> "loop", impl |-> impl, emails |-> emails, i |-> 1,
                      profiles |-> NoProfiles]
    /\ engine = Unused /\ batch = Unused /\ report = Unused
    /\ exporter = Unused /\ header = Unused

\* for email in emails: ... ; after the last message, return dict(profiles).
ProfileStep ==
    /\ profiler.pc = "loop"
    /\ IF profiler.i > Len(profiler.emails)
       THEN profiler' = [profiler EXCEPT !.pc = "returned"]
       ELSE profiler' =
              [profiler EXCEPT
                 !.i = @ + 1,
                 !.profiles =
                     IF profiler.impl = "backend"
                     THEN PatternStep(@, profiler.emails[profiler.i])
                     ELSE PatternStepStandalone(@, profiler.emails[profiler.i])]
    /\ UNCHANGED <<endpoint, engine, batch, report, exporter, header, billing>>

NextProfiler == ProfileStep

SpecProfiler == InitProfiler /\ [][NextProfiler]_vars

\* ------------------------------------------------------------ claims C11, C12
ProfilerReturned == profiler.pc = "returned"

SendersOf(emails) == { emails[i].sender : i \in 1..Len(emails) }

\* C11: the key set of the mapping analyze_email_patterns returns is exactly
\* the set of distinct sender addresses of the batch, whatever the date strings
\* of the messages are (valid, empty or unparsable).
C11_KeysAreSenders ==
    (ProfilerReturned /\ profiler.impl = "backend")
        => DOMAIN profiler.profiles = SendersOf(profiler.emails)

\* The messages of a sender whose date is a parsable date.
Dated(emails, s) ==
    SelectSeq(emails, LAMBDA m : m.sender = s /\ m.date \in {TuesdayMorning, FridayEvening})

\* C12: a message is processed atomically: one whose date is empty or
\* unparsable contributes neither a send-time entry nor a subject, the rest of
\* the batch is still processed, and in every profile the send-time and topic
\* sequences have the same length.
C12_MessageAtomic ==
    ProfilerReturned =>
        \A s \in DOMAIN profiler.profiles :
            /\ Len(profiler.profiles[s].sent_times) = Len(profiler.profiles[s].topics)
            /\ Len(profiler.profiles[s].topics) = Len(Dated(profiler.emails, s))

\* api_server.py's profiler does process every message atomically.
C12_StandaloneAtomic ==
    (ProfilerReturned /\ profiler.impl = "api_server")
        => \A s \in Senders :
              LET d == Dated(profiler.emails, s)
              IN  IF d = << >> THEN s \notin DOMAIN profiler.profiles
                  ELSE /\ s \in DOMAIN profiler.profiles
                       /\ profiler.profiles[s].topics = [i \in 1..Len(d) |-> d[i].subject]
                       /\ Len(profiler.profiles[s].sent_times) = Len(d)

\* ====================================== ai_service.py: one message, in detail
\* A Python dict is a function from its keys; d.get(k, default).
Get(d, k, default) == IF k \in DOMAIN d THEN d[k] ELSE default

Restrict(d, keys) == [k \in keys |-> d[k]]

SendTimeFields == {"recommended_hour", "recommended_day", "confidence", "reasoning"}

PersonalizationFields == {"tone", "greeting", "keyTopics", "contentHooks", "cta", "notes"}

\* What the inference service answers when it answers with a complete object.
SuggestedSendTime ==
    [recommended_hour |-> 15, recommended_day |-> "Friday", confidence |-> "high",
     reasoning |-> "Most emails received on Friday afternoons"]

\* A well-formed JSON object whose values are outside the contract of the prompt.
OffContractSendTime ==
    [recommended_hour |-> 25, recommended_day |-> "Someday", confidence |-> "very high",
     reasoning |-> "Late evenings work best"]

SuggestedPersonalization ==
    [tone |-> "casual", greeting |-> "Hi Ann", keyTopics |-> <<"pricing">>,
     contentHooks |-> <<"demo">>, cta |-> "Schedule a call",
     notes |-> "Mirrors the sender's informal style"]

\* client.chat.completions.create: the call raises, or returns content that is
\* not JSON, a JSON array, or a JSON object with some of the fields asked for.
Responses(suggested) ==
    { [kind |-> k, content |-> Restrict(suggested, {})] : k \in {"raise", "text", "array"} }
      \cup { [kind |-> "object", content |-> Restrict(suggested, keys)] :
                keys \in SUBSET DOMAIN suggested }

\* The value a function hands to analyze_email_batch: a dict, or a value that
\* is no dict (object = FALSE).
Dict(d) == [object |-> TRUE, value |-> d]

NoDict == [object |-> FALSE, value |-> Restrict(SuggestedSendTime, {})]

NoHistoryDefault ==
    [recommended_hour |-> 10, recommended_day |-> "Tuesday", confidence |-> "low",
     reasoning |-> "No historical data available. Using industry best practices."]

PredictionErrorDefault(impl) ==
    [recommended_hour |-> 10, recommended_day |-> "Tuesday", confidence |-> "low",
     reasoning |-> IF impl = "backend"
                   THEN "Using default timing due to analysis error"
                   ELSE "Using default timing"]

\* not profile or not profile.get('sent_times')
HasHistory(profiles, email_address) ==
    /\ email_address \in DOMAIN profiles
    /\ profiles[email_address].sent_times # << >>

\* Lines 49-70: the inference call, json.loads and the except clause.
AskSendTime(impl, response) ==
    CASE response.kind = "object" -> [result |-> Dict(response.content), calls |-> 1]
      [] response.kind = "array"  -> [result |-> NoDict, calls |-> 1]
      [] OTHER -> [result |-> Dict(PredictionErrorDefault(impl)), calls |-> 1]

predict_optimal_send_time_any_profile(impl, email_address, profiles, response) ==
    IF email_address \notin DOMAIN profiles
    THEN [result |-> Dict(NoHistoryDefault), calls |-> 0]
    ELSE AskSendTime(impl, response)

\* predict_optimal_send_time: the value returned and the inference calls made.
predict_optimal_send_time(impl, email_address, profiles, response) ==
    IF ~HasHistory(profiles, email_address)
    THEN [result |-> Dict(NoHistoryDefault), calls |-> 0]
    ELSE AskSendTime(impl, response)

PersonalizationErrorDefault(impl) ==
    IF impl = "backend"
    THEN [tone |-> "professional", keyTopics |-> <<"general inquiry">>,
          greeting |-> "Hello", contentHooks |-> <<"value proposition">>,
          cta |-> "Reply at your convenience",
          notes |-> "Standard approach due to analysis error"]
    ELSE [tone |-> "professional", keyTopics |-> << >>, greeting |-> "Hello",
          contentHooks |-> << >>, cta |-> "Reply when convenient",
          notes |-> "Standard approach"]

\* generate_personalized_content: always one inference call.
generate_personalized_content(impl, response) ==
    CASE response.kind = "object" -> Dict(response.content)
      [] response.kind = "array"  -> NoDict
      [] OTHER                    -> Dict(PersonalizationErrorDefault(impl))

\* analyze_email_batch, lines 155-180 (api_server.py 451-476): the record built
\* from the two results; .get on a value that is no dict raises and the
\* message is skipped.
OptimalTime(send_time) ==
    [day        |-> Get(send_time, "recommended_day", "Tuesday"),
     hour       |-> Get(send_time, "recommended_hour", 10),
     confidence |-> Get(send_time, "confidence", "medium")]

Personalization(personalization) ==
    [tone         |-> Get(personalization, "tone", "professional"),
     greeting     |-> Get(personalization, "greeting", "Hello"),
     keyTopics    |-> Get(personalization, "keyTopics", << >>),
     contentHooks |-> Get(personalization, "contentHooks", << >>),
     cta          |-> Get(personalization, "cta", "Reply"),
     notes        |-> Get(personalization, "notes", "N/A")]

AnalyzedEmail(send_time, personalization) ==
    IF send_time.object /\ personalization.object
    THEN [skipped |-> FALSE, optimalTime |-> OptimalTime(send_time.value),
          personalization |-> Personalization(personalization.value)]
    ELSE [skipped |-> TRUE, optimalTime |-> OptimalTime(NoDict.value),
          personalization |-> Personalization(NoDict.value)]

\* One message whose sender has this one earlier message in the profiled
\* batch; the answers the inference service will give are fixed beforehand.
InitEngine ==
    /\ Registered
    /\ \E impl \in Implementations, date \in Dates,
          timing \in Responses(SuggestedSendTime) \cup Responses(OffContractSendTime),
          writing \in Responses(SuggestedPersonalization) :
          LET email == [sender |-> "ann@example.com", subject |-> "Quarterly report",
                        date |-> date]
          IN  engine = [pc |-> "predict", impl |-> impl, email |-> email,
                        profiles |-> IF impl = "backend"
                                     THEN PatternStep(NoProfiles, email)
                                     ELSE PatternStepStandalone(NoProfiles, email),
                        timing |-> timing, writing |-> writing,
                        send_time |-> NoDict, personalization |-> NoDict,
                        calls |-> 0,
                        analyzed_email |-> AnalyzedEmail(NoDict, NoDict)]
    /\ profiler = Unused /\ batch = Unused /\ report = Unused
    /\ exporter = Unused /\ header = Unused

\* send_time = predict_optimal_send_time(sender, profiles)
PredictSendTime ==
    /\ engine.pc = "predict"
    /\ LET p == predict_optimal_send_time(engine.impl, engine.email.sender,
                                          engine.profiles, engine.timing)
       IN  engine' = [engine EXCEPT !.pc = "personalize", !.send_time = p.result,
                                    !.calls = @ + p.calls]
    /\ UNCHANGED <<endpoint, profiler, batch, report, exporter, header, billing>>

\* personalization = generate_personalized_content(...)
Personalize ==
    /\ engine.pc = "personalize"
    /\ engine' = [engine EXCEPT
                    !.pc = "merge",
                    !.personalization =
                        generate_personalized_content(engine.impl, engine.writing),
                    !.calls = @ + 1]
    /\ UNCHANGED <<endpoint, profiler, batch, report, exporter, header, billing>>

\* analyzed_email = {...}; analyzed_emails.append(analyzed_email)
Merge ==
    /\ engine.pc = "merge"
    /\ engine' = [engine EXCEPT
                    !.pc = "merged",
                    !.analyzed_email = AnalyzedEmail(engine.send_time,
                                                     engine.personalization)]
    /\ UNCHANGED <<endpoint, profiler, batch, report, exporter, header, billing>>

NextEngine == PredictSendTime \/ Personalize \/ Merge

SpecEngine == InitEngine /\ [][NextEngine]_vars

\* ------------------------------------------------------ claims C13 .. C16
Predicted == engine.pc # "predict"

\* C13: for a sender with no profile or with an empty send-time history,
\* predict_optimal_send_time returns exactly the fixed default (hour 10,
\* Tuesday, confidence low, the no-historical-data reasoning) and makes no
\* inference call.
C13_NoHistoryDefault ==
    (Predicted /\ ~HasHistory(engine.profiles, engine.email.sender)) =>
        /\ engine.send_time.object
        /\ DOMAIN engine.send_time.value = SendTimeFields
        /\ engine.send_time.value.recommended_hour = 10
        /\ engine.send_time.value.recommended_day = "Tuesday"
        /\ engine.send_time.value.confidence = "low"
        /\ engine.send_time.value.reasoning
              = "No historical data available. Using industry best practices."
        /\ engine.pc = "personalize" => engine.calls = 0

\* A sender with a profile whose send-time history is empty got the default
\* although the inference service would have answered with a full object.
C13_Witness ==
    /\ engine.pc = "personalize"
    /\ engine.email.sender \in DOMAIN engine.profiles
    /\ engine.profiles[engine.email.sender].sent_times = << >>
    /\ engine.timing.kind = "object" /\ DOMAIN engine.timing.content = SendTimeFields
    /\ engine.send_time.value.recommended_hour = 10
    /\ engine.calls = 0


MergedOk == engine.pc = "merged" /\ engine.writing.kind # "array"

\* The send-time inference call was made and failed in one of the three ways.
SendTimeInferenceFailed ==
    /\ HasHistory(engine.profiles, engine.email.sender)
    /\ \/ engine.timing.kind \in {"raise", "text"}
       \/ engine.timing.kind = "object" /\ DOMAIN engine.timing.content # SendTimeFields

\* C14: whenever the send-time inference call fails (it raises, the response
\* is not JSON, or the JSON lacks one of the four required fields), the result
\* used for the message is hour 10, Tuesday, confidence low, with a reasoning
\* that differs from the no-data reasoning, and the message is not lost.
C14_InferenceFailureDefault ==
    (MergedOk /\ SendTimeInferenceFailed) =>
        /\ ~engine.analyzed_email.skipped
        /\ engine.analyzed_email.optimalTime
              = [day |-> "Tuesday", hour |-> 10, confidence |-> "low"]
        /\ "reasoning" \in DOMAIN engine.send_time.value
        /\ engine.send_time.value.reasoning # NoHistoryDefault.reasoning

\* The two ways the code does catch: the call raises or the content is no JSON.
C14_CaughtFailures ==
    (MergedOk /\ HasHistory(engine.profiles, engine.email.sender)
              /\ engine.timing.kind \in {"raise", "text"}) =>
        /\ ~engine.analyzed_email.skipped
        /\ engine.analyzed_email.optimalTime
              = [day |-> "Tuesday", hour |-> 10, confidence |-> "low"]
        /\ engine.send_time.value.reasoning # NoHistoryDefault.reasoning

Personalized == engine.pc \in {"merge", "merged"}

PersonalizationInferenceFailed == engine.writing.kind \in {"raise", "text"}

\* C15: whenever the personalization inference call fails (it raises or the
\* response is not JSON), generate_personalized_content returns exactly tone
\* professional, keyTopics [], greeting Hello, contentHooks [], cta 'Reply when
\* convenient', notes 'standard approach' (in either capitalisation), and does
\* not raise.
C15_PersonalizationFallback ==
    (Personalized /\ PersonalizationInferenceFailed) =>
        /\ engine.personalization.object
        /\ DOMAIN engine.personalization.value = PersonalizationFields
        /\ engine.personalization.value.tone = "professional"
        /\ engine.personalization.value.keyTopics = << >>
        /\ engine.personalization.value.greeting = "Hello"
        /\ engine.personalization.value.contentHooks = << >>
        /\ engine.personalization.value.cta = "Reply when convenient"
        /\ engine.personalization.value.notes \in {"standard approach", "Standard approach"}

\* api_server.py's generate_personalized_content returns that fallback.
C15_StandaloneFallback == engine.impl = "api_server" => C15_PersonalizationFallback

\* The value the failure fallback documented in the specification has for a field.
DocumentedFallback ==
    [tone |-> {"professional"}, keyTopics |-> {<< >>}, greeting |-> {"Hello"},
     contentHooks |-> {<< >>}, cta |-> {"Reply when convenient"},
     notes |-> {"standard approach", "Standard approach"}]

\* C16: for every subset of the six fields missing from an otherwise valid
\* personalization response, the merged record keeps every field that was
\* present and fills each missing one with the value the documented failure
\* fallback has for it; the response is never discarded as a whole.
C16_MissingFieldsFilled ==
    (engine.pc = "merged" /\ engine.writing.kind = "object" /\ engine.send_time.object) =>
        /\ ~engine.analyzed_email.skipped
        /\ \A f \in PersonalizationFields :
              IF f \in DOMAIN engine.writing.content
              THEN engine.analyzed_email.personalization[f] = engine.writing.content[f]
              ELSE engine.analyzed_email.personalization[f] \in DocumentedFallback[f]

\* Present fields are kept and the response is never discarded as a whole.
C16_PresentFieldsKept ==
    (engine.pc = "merged" /\ engine.writing.kind = "object" /\ engine.send_time.object) =>
        /\ ~engine.analyzed_email.skipped
        /\ \A f \in DOMAIN engine.writing.content :
              engine.analyzed_email.personalization[f] = engine.writing.content[f]


\* ================================== ai_service.py: analyze_email_batch, the loop
\* The answers the inference service gives for one message of a batch: a
\* complete object, a failure the functions absorb, or a JSON value that is no
\* object (which makes the loop body raise).
Answer(suggested, kind) ==
    [kind |-> kind,
     content |-> Restrict(suggested, IF kind = "object" THEN DOMAIN suggested ELSE {})]

Answers ==
    [timing  : { Answer(SuggestedSendTime, k) : k \in {"object", "raise", "array"} },
     writing : { Answer(SuggestedPersonalization, k) : k \in {"object", "array"} }]

\* Every batch of at most n selected messages, with ids in batch order.
SelectedBatches(n) ==
    UNION { { [i \in 1..k |-> [id |-> i, sender |-> "ann@example.com",
                               timing |-> b[i].timing, writing |-> b[i].writing]] :
                b \in [1..k -> Answers] } : k \in 0..n }

\* The profiles of a mailbox in which the sender has one dated message.
KnownSender ==
    PatternStep(NoProfiles, [sender |-> "ann@example.com",
                             subject |-> "Quarterly report", date |-> TuesdayMorning])

\* The record the loop body builds for one message.
Analyzed(email_data, profiles) ==
    [id |-> email_data.id] @@
    AnalyzedEmail(predict_optimal_send_time("backend", email_data.sender, profiles,
                                            email_data.timing).result,
                  generate_personalized_content("backend", email_data.writing))

BatchStep_keep_failed(analyzed_emails, email_data, profiles) ==
    Append(analyzed_emails, Analyzed(email_data, profiles))

\* One iteration of the loop of analyze_email_batch: append the record, or
\* continue when the body raised.
BatchStep(analyzed_emails, email_data, profiles) ==
    IF Analyzed(email_data, profiles).skipped THEN analyzed_emails
    ELSE Append(analyzed_emails, Analyzed(email_data, profiles))

InitBatch ==
    /\ Registered
    /\ \E emails \in SelectedBatches(MaxSelected) :
          batch = [pc |-> "loop", emails |-> emails, i |-> 1, analyzed_emails |-> << >>]
    /\ profiler = Unused /\ engine = Unused /\ report = Unused
    /\ exporter = Unused /\ header = Unused

\* for email_data in emails: ... ; return analyzed_emails
BatchLoop ==
    /\ batch.pc = "loop"
    /\ IF batch.i > Len(batch.emails)
       THEN batch' = [batch EXCEPT !.pc = "returned"]
       ELSE batch' = [batch EXCEPT
                        !.i = @ + 1,
                        !.analyzed_emails = BatchStep(@, batch.emails[batch.i], KnownSender)]
    /\ UNCHANGED <<endpoint, profiler, engine, report, exporter, header, billing>>

\* analyze_emails, lines 233-235: the counters grow by len(analyzed_emails).
BatchCount ==
    /\ batch.pc = "returned"
    /\ batch' = [batch EXCEPT !.pc = "counted"]
    /\ emails_analyzed_this_month' =
          emails_analyzed_this_month + Len(batch.analyzed_emails)
    /\ total_emails_analyzed' = total_emails_analyzed + Len(batch.analyzed_emails)
    /\ UNCHANGED <<subscription_tier, gmail_credentials, analyses, issued, started,
                   connected, req, profiler, engine, report,
                   exporter, header, billing>>

NextBatch == BatchLoop \/ BatchCount

SpecBatch == InitBatch /\ [][NextBatch]_vars

\* ------------------------------------------------------------- claim C17
\* Processing of the message fails: one of the two results is no JSON object.
Fails(email_data) == email_data.timing.kind = "array" \/ email_data.writing.kind = "array"

Survivors(emails) == SelectSeq(emails, LAMBDA e : ~Fails(e))

\* C17: a message whose processing fails during analyze_email_batch is absent
\* from the output and not counted in the usage increment; every other selected
\* message appears in the output with its own result, in the relative order of
\* the input batch.
C17_FailedMessageSkipped ==
    batch.pc \in {"returned", "counted"} =>
        LET out == batch.analyzed_emails
            kept == Survivors(batch.emails)
        IN  /\ Len(out) = Len(kept)
            /\ \A i \in 1..Len(out) :
                  /\ out[i].id = kept[i].id
                  /\ out[i].optimalTime.confidence
                        = IF kept[i].timing.kind = "object" THEN "high" ELSE "low"
                  /\ out[i].personalization.tone = "casual"
            /\ batch.pc = "counted" =>
                  emails_analyzed_this_month = Len(kept)

\* A batch of three whose second message failed was counted as two.
C17_Witness ==
    /\ batch.pc = "counted"
    /\ Len(batch.emails) = 3
    /\ Fails(batch.emails[2]) /\ ~Fails(batch.emails[1]) /\ ~Fails(batch.emails[3])
    /\ Len(batch.analyzed_emails) = 2
    /\ emails_analyzed_this_month = 2


\* ======================================= app.py: the statistics of a response
Confidences(n) ==
    UNION { { [i \in 1..k |-> IF i <= h THEN "high" ELSE other],
              [i \in 1..k |-> IF i > k - h THEN "high" ELSE other] } :
            k \in 0..n, h \in 0..n, other \in {"medium", "low"} }

\* sum(1 for e in analyzed_emails if e['optimalTime']['confidence'] == 'high')
high_confidence(confidences) ==
    Len(SelectSeq(confidences, LAMBDA c : c = "high"))

avgConfidence_inclusive(high, n) ==
    IF 10 * high >= 6 * n THEN "High"
    ELSE IF 10 * high >= 3 * n THEN "Medium" ELSE "Low"

\* 'High' if high / n > 0.6 else 'Medium' if high / n > 0.3 else 'Low'. The
\* float quotient compares with 0.6 and 0.3 as the exact fraction does for
\* every n below 50.
avgConfidence(high, n) ==
    IF 10 * high > 6 * n THEN "High"
    ELSE IF 10 * high > 3 * n THEN "Medium" ELSE "Low"

\* The stats block of analyze_emails, lines 247-263; the division raises
\* ZeroDivisionError for an empty list.
Stats(confidences) ==
    LET n == Len(confidences)
        high == high_confidence(confidences)
    IN  IF n = 0
        THEN [raised |-> TRUE, totalEmails |-> 0, avgConfidence |-> "",
              optimizationRate |-> 0, engagementBoost |-> ""]
        ELSE [raised |-> FALSE, totalEmails |-> n,
              avgConfidence |-> avgConfidence(high, n),
              optimizationRate |-> (100 * high) \div n,
              engagementBoost |-> "+34%"]

InitReport ==
    /\ Registered
    /\ \E confidences \in Confidences(MaxRecords) :
          report = [pc |-> "commit", confidences |-> confidences,
                    stats |-> Stats(<< >>), status |-> 0]
    /\ profiler = Unused /\ engine = Unused /\ batch = Unused
    /\ exporter = Unused /\ header = Unused

\* Lines 247-274 after the commit: the response with the statistics, or the
\* 500 of the except clause.
Report ==
    /\ report.pc = "commit"
    /\ LET s == Stats(report.confidences)
       IN  report' = [report EXCEPT !.pc = "responded", !.stats = s,
                                    !.status = Respond(Len(report.confidences)).status]
    /\ UNCHANGED <<endpoint, profiler, engine, batch, exporter, header, billing>>

NextReport == Report

SpecReport == InitReport /\ [][NextReport]_vars

\* ------------------------------------------------------- claims C18, C19
\* C18: whenever session, quota, fetch and persistence all succeed, analyze
\* returns a successful batch result, whatever the mailbox holds and whatever
\* count was requested, the case of zero records included.
C18_SuccessWhenAllStepsSucceed ==
    [][ \A r \in Reqs : Committed(r) => req'[r].resp.status = 200 ]_vars

\* With at least one record the committed request does answer 200.
C18_SuccessWithRecords ==
    [][ \A r \in Reqs : (Committed(r) /\ req[r].analyzed # << >>)
                            => req'[r].resp = BatchResult(Len(req[r].analyzed)) ]_vars

\* The number of entries of a list that are 'high'.
HighOf(confidences) ==
    Cardinality({ i \in 1..Len(confidences) : confidences[i] = "high" })

\* C19: for n > 0 records of which h are high-confidence, totalEmails is n and
\* the label is 'High' when h/n > 0.6, 'Medium' when 0.3 < h/n <= 0.6 and
\* 'Low' otherwise; the engagement boost is the same fixed value in every
\* result.
C19_ConfidenceLabel ==
    (report.pc = "responded" /\ Len(report.confidences) > 0) =>
        LET n == Len(report.confidences)
            h == HighOf(report.confidences)
        IN  /\ ~report.stats.raised /\ report.status = 200
            /\ report.stats.totalEmails = n
            /\ 5 * h > 3 * n => report.stats.avgConfidence = "High"
            /\ (10 * h > 3 * n /\ 5 * h <= 3 * n) => report.stats.avgConfidence = "Medium"
            /\ 10 * h <= 3 * n => report.stats.avgConfidence = "Low"
            /\ report.stats.engagementBoost = "+34%"

\* Three of five records are high-confidence: exactly 0.6, labelled Medium.
C19_Witness ==
    /\ report.pc = "responded"
    /\ Len(report.confidences) = 5 /\ HighOf(report.confidences) = 3
    /\ report.stats.avgConfidence = "Medium"
    /\ report.stats.totalEmails = 5


\* ------------------------------------------------------------- claim C20
ListRaised(r) ==
    /\ req[r].pc = "fetch" /\ req'[r].pc = "done"
    /\ req'[r].listCalls = req[r].listCalls + 1

Fetched(r) == req[r].pc = "fetch" /\ req'[r].pc = "commit"

\* C20: if the mailbox list call fails the whole request aborts with an error
\* and nothing is persisted (no record, no counter change, no inference call);
\* if the get call fails for one message, only that message is skipped and the
\* remaining ones are still fetched and eligible for analysis.
C20_ListAbortsGetSkips ==
    [][ \A r \in Reqs :
          /\ ListRaised(r) =>
                /\ req'[r].resp.status = 500
                /\ req'[r].inferred = 0 /\ ~req'[r].committed
                /\ UNCHANGED <<analyses, emails_analyzed_this_month, total_emails_analyzed>>
          /\ Fetched(r) =>
                LET q == req'[r]
                    rest == { m \in 1..q.listed : m # q.getFailed }
                IN  /\ { q.emails[i] : i \in 1..Len(q.emails) } = rest
                    /\ Len(q.emails) = Cardinality(rest)
                    /\ \A i, j \in 1..Len(q.emails) : i < j => q.emails[i] < q.emails[j]
                    /\ q.maxResults > 0 =>
                          q.passed = SubSeq(q.emails, 1, Min(Min(q.maxResults, 10),
                                                             Len(q.emails)))
      ]_vars

\* The get call of the first message of the largest mailbox raised; the
\* others were fetched and the first five of them analyzed.
C20_Witness ==
    /\ req["r1"].pc = "commit"
    /\ req["r1"].listed = MaxMailbox /\ req["r1"].getFailed = 1
    /\ Len(req["r1"].emails) = MaxMailbox - 1
    /\ req["r1"].emails[1] = 2
    /\ req["r1"].maxResults = 5 /\ Len(req["r1"].analyzed) = 5


\* ------------------------------------------------------------- claim C21
\* What a client can tell an outcome by: the HTTP status, the error kind and
\* the action asked of the user (the message of a 500 is free text).
Category(resp) == <<resp.status, resp.error, resp.action>>

BatchFailures == {"credential", "quota", "fetch", "persistence"}

\* C21: the four batch-level failures of analyze (no usable credential, quota
\* exceeded, mailbox fetch failure, persistence failure) each produce an error
\* outcome whose category differs from that of the other three.
C21_DistinctErrorCategories ==
    \A r1, r2 \in Reqs :
        ( /\ req[r1].pc = "done" /\ req[r2].pc = "done"
          /\ req[r1].failure \in BatchFailures /\ req[r2].failure \in BatchFailures
          /\ req[r1].failure # req[r2].failure )
        => Category(req[r1].resp) # Category(req[r2].resp)

\* Credential and quota failures are told apart from each other and from the
\* two failures that end in the except clause.
C21_CredentialAndQuotaDistinct ==
    \A r1, r2 \in Reqs :
        ( /\ req[r1].pc = "done" /\ req[r2].pc = "done"
          /\ req[r1].failure \in {"credential", "quota"}
          /\ req[r2].failure \in BatchFailures
          /\ req[r1].failure # req[r2].failure )
        => Category(req[r1].resp) # Category(req[r2].resp)


\* ------------------------------------------------------------- claim C27
\* C27: analyze resolves the session before it checks the quota: for a user
\* with no usable credential whose monthly counter has reached the tier limit,
\* analyze aborts with RequiresAuthorization, not with QuotaExceeded.
C27_SessionBeforeQuota ==
    [][ \A r \in Reqs :
          ( /\ Invoked(r)
            /\ CredentialBranch(gmail_credentials) \notin {"valid", "refresh"}
            /\ emails_analyzed_this_month >= TierLimit(subscription_tier) )
          => /\ req'[r].resp.status = RequiresAuthorization.status
             /\ req'[r].failure = "credential" ]_vars


\* ------------------------------------------------------- claims C23, C30
\* C23: after any sequence of analyze requests at most one Analysis Record is
\* stored per (user, message identifier) pair: analyzing a mailbox whose recent
\* messages were already analyzed creates no second record for a message.
C23_OneRecordPerMessage ==
    \A i, j \in 1..Len(analyses) : analyses[i] = analyses[j] => i = j

\* Within the rows one request adds, no message occurs twice.
C23_OneRecordPerMessageAndRequest ==
    \A r \in Reqs : req[r].pc = "commit" =>
        \A i, j \in 1..Len(req[r].analyzed) :
            req[r].analyzed[i] = req[r].analyzed[j] => i = j

\* C30: when a user's analyze requests do not overlap,
\* emails_analyzed_this_month never exceeds the current tier limit by more
\* than hardCap - 1 = 9.
C30_OverrunAtMostNine ==
    emails_analyzed_this_month <= TierLimit(subscription_tier) + 9

\* A request with a count of at least 0 leaves the counter at most 9 over.
C30_OverrunWithoutNegativeCount ==
    [][ \A r \in Reqs : (Committed(r) /\ req[r].maxResults >= 0)
                           => emails_analyzed_this_month' <= TierLimit(subscription_tier) + 9
      ]_vars


\* ------------------------------------------------------------- claim C28
\* The messages of a sender that contribute a send time, and those that
\* contribute a topic (in the backend a message without a date still does).
TimeContributors(emails, s) == Dated(emails, s)

TopicContributors(impl, emails, s) ==
    SelectSeq(emails, LAMBDA m : /\ m.sender = s
                                 /\ \/ m.date \in {TuesdayMorning, FridayEvening}
                                    \/ impl = "backend" /\ m.date = "")

\* C28: for every batch and sender, the send-time and topic sequences of the
\* sender's profile list the contributing messages in the relative order of
\* the input batch, duplicates kept and nothing reordered.
C28_ProfileOrder ==
    ProfilerReturned =>
        \A s \in DOMAIN profiler.profiles :
            LET times  == TimeContributors(profiler.emails, s)
                topics == TopicContributors(profiler.impl, profiler.emails, s)
                p == profiler.profiles[s]
            IN  /\ Len(p.sent_times) = Len(times)
                /\ \A i \in 1..Len(times) :
                      p.sent_times[i].timestamp
                         = IF times[i].date = TuesdayMorning
                           THEN "2026-11-03T09:30:00+00:00"
                           ELSE "2026-11-06T17:05:00+00:00"
                /\ Len(p.topics) = Len(topics)
                /\ \A i \in 1..Len(topics) : p.topics[i] = topics[i].subject

\* Three messages of one sender, the first and the last identical and the
\* middle one different: the profile has three entries in that order.
C28_Witness ==
    /\ ProfilerReturned /\ profiler.impl = "backend"
    /\ Len(profiler.emails) = 3
    /\ profiler.emails[1] = profiler.emails[3]
    /\ profiler.emails[1].sender = "ann@example.com"
    /\ profiler.emails[2].sender = "ann@example.com"
    /\ profiler.emails[1].date = FridayEvening /\ profiler.emails[2].date = TuesdayMorning
    /\ profiler.emails[1].subject # profiler.emails[2].subject
    /\ Len(profiler.profiles["ann@example.com"].topics) = 3
    /\ profiler.profiles["ann@example.com"].topics[1]
          = profiler.profiles["ann@example.com"].topics[3]
    /\ profiler.profiles["ann@example.com"].sent_times[1].day = "Friday"
    /\ profiler.profiles["ann@example.com"].sent_times[2].day = "Tuesday"


\* ------------------------------------------------------------- claim C24
\* The message was merged into a record, which analyze_emails stores as it is.
RecordStored == engine.pc = "merged" /\ ~engine.analyzed_email.skipped

\* C24: every Analysis Record analyze persists has a recommended hour in
\* 0..23 and a confidence in {low, medium, high}, whatever the inference
\* service returns (well-formed JSON with out-of-range values included).
C24_HourAndConfidenceInRange ==
    RecordStored =>
        /\ engine.analyzed_email.optimalTime.hour \in 0..23
        /\ engine.analyzed_email.optimalTime.confidence \in {"low", "medium", "high"}

\* Unless the service itself answers with an out-of-range value, the stored
\* hour and confidence are in range.
C24_InRangeUnlessServiceOffContract ==
    (RecordStored /\ \A f \in DOMAIN engine.timing.content :
                        engine.timing.content[f] = SuggestedSendTime[f]) =>
        /\ engine.analyzed_email.optimalTime.hour \in 0..23
        /\ engine.analyzed_email.optimalTime.confidence \in {"low", "medium", "high"}


\* ============================================== payment.py: the Stripe webhook
\* The tiers of PLANS, and statuses Stripe reports for a subscription.
PaidTiers == {"pro", "enterprise"}

ReportedStatuses == {"active", "past_due"}

\* Operations are executed one at a time: webhook events and exports happen
\* between the analyze requests, not during one.
NoRequestInProgress == \A r \in Reqs : req[r].pc \in {"idle", "done"}

Handled(type) ==
    /\ NoRequestInProgress
    /\ webhook.handled < MaxEvents
    /\ webhook' = [handled |-> webhook.handled + 1, type |-> type]

\* handle_successful_payment: tier, status and the monthly reset in one commit;
\* nothing is stored when the commit raises (rollback).
handle_successful_payment ==
    /\ Handled("checkout.session.completed")
    /\ \E tier \in PaidTiers, commitOk \in BOOLEAN :
          IF commitOk
          THEN /\ subscription_tier' = tier
               /\ subscription_status' = "active"
               /\ emails_analyzed_this_month' = 0
          ELSE UNCHANGED <<subscription_tier, subscription_status,
                           emails_analyzed_this_month>>
    /\ UNCHANGED <<total_emails_analyzed, gmail_credentials, analyses, issued, started,
                   connected, req, units>>

\* handle_subscription_update: the status only.
handle_subscription_update ==
    /\ Handled("customer.subscription.updated")
    /\ \E status \in ReportedStatuses, commitOk \in BOOLEAN :
          subscription_status' = IF commitOk THEN status ELSE subscription_status
    /\ UNCHANGED <<subscription_tier, emails_analyzed_this_month, total_emails_analyzed,
                   gmail_credentials, analyses, issued, started, connected, req, units>>

handle_subscription_cancel_keeps_month ==
    /\ Handled("customer.subscription.deleted")
    /\ \E commitOk \in BOOLEAN :
          IF commitOk
          THEN subscription_tier' = "free" /\ subscription_status' = "canceled"
          ELSE UNCHANGED <<subscription_tier, subscription_status>>
    /\ UNCHANGED <<emails_analyzed_this_month, total_emails_analyzed, gmail_credentials,
                   analyses, issued, started, connected, req, units>>

\* handle_subscription_cancel: back to the free tier, with the monthly reset.
handle_subscription_cancel ==
    /\ Handled("customer.subscription.deleted")
    /\ \E commitOk \in BOOLEAN :
          IF commitOk
          THEN /\ subscription_tier' = "free"
               /\ subscription_status' = "canceled"
               /\ emails_analyzed_this_month' = 0
          ELSE UNCHANGED <<subscription_tier, subscription_status,
                           emails_analyzed_this_month>>
    /\ UNCHANGED <<total_emails_analyzed, gmail_credentials, analyses, issued, started,
                   connected, req, units>>

stripe_webhook ==
    handle_successful_payment \/ handle_subscription_update \/ handle_subscription_cancel

\* export_analysis seen from the account: the row is looked up (404 when the
\* user has no such row) and rendered; no counter and no record changes.
ExportStored ==
    /\ NoRequestInProgress
    /\ \E analysis_id \in {1}, format \in {"markdown", "text"} :
          exporter' = [pc |-> "exported", analysis_id |-> analysis_id, format |-> format,
                       status |-> IF analysis_id \in 1..Len(analyses) THEN 200 ELSE 404]
    /\ UNCHANGED <<endpoint, billing, profiler, engine, batch, report, header>>

AccountCounts == {DefaultCount, HardCap + 1}

AccountSizes == {0, MaxMailbox}

\* A free-tier user who has connected Gmail and analyzed nothing yet; the
\* access token stays valid, so get_gmail_service takes neither the refresh
\* nor the not-connected branch.
InitAccount ==
    /\ subscription_tier = "free"
    /\ subscription_status = "active"
    /\ emails_analyzed_this_month = 0
    /\ total_emails_analyzed = 0
    /\ gmail_credentials = Credentials(1, TRUE)
    /\ analyses = << >>
    /\ issued = 1
    /\ started = 0
    /\ connected = TRUE
    /\ req = [r \in Reqs |-> IdleRequest]
    /\ webhook = [handled |-> 0, type |-> ""]
    /\ profiler = Unused /\ engine = Unused /\ batch = Unused /\ report = Unused
    /\ exporter = Unused /\ header = Unused

NextAccount ==
    \/ \E r \in SeqReqs :
          \/ Begin(r, AccountCounts)
          \/ FetchFail(r)
          \/ Analyze(r, AccountSizes)
          \/ CommitOk(r)
          \/ CommitFail(r)
    \/ stripe_webhook
    \/ ExportStored

SpecAccount == InitAccount /\ [][NextAccount]_vars

\* ------------------------------------------------------- claims C22, C29
WebhookHandled(type) ==
    webhook'.handled = webhook.handled + 1 /\ webhook'.type = type

\* C22: every event that changes the subscription tier (checkout that sets
\* the paid tier, cancellation that sets the tier to free) sets
\* emails_analyzed_this_month to 0 in the same committed update and leaves
\* total_emails_analyzed unchanged; a subscription status update that does not
\* change the tier leaves both counters unchanged.
C22_TierChangeResetsMonth ==
    [][ /\ subscription_tier' # subscription_tier =>
              /\ emails_analyzed_this_month' = 0
              /\ total_emails_analyzed' = total_emails_analyzed
        /\ WebhookHandled("customer.subscription.updated") =>
              /\ subscription_tier' = subscription_tier
              /\ emails_analyzed_this_month' = emails_analyzed_this_month
              /\ total_emails_analyzed' = total_emails_analyzed ]_vars

\* A user with analyzed messages in the month was moved to a paid tier, the
\* monthly counter is back at 0 and the lifetime counter is not.
C22_Witness ==
    /\ webhook.type = "checkout.session.completed"
    /\ subscription_tier = "pro"
    /\ emails_analyzed_this_month = 0
    /\ total_emails_analyzed > 0

\* C29: after any sequence of analyze requests, exports and subscription
\* events executed one at a time, whether each succeeds or fails,
\* total_emails_analyzed equals the number of Analysis Records stored.
C29_TotalCountsRecords == total_emails_analyzed = Len(analyses)

\* After a request that stored five records, a tier change, an export and a
\* request whose commit failed, the user has five records.
C29_Witness ==
    /\ Len(analyses) = 5 /\ total_emails_analyzed = 5
    /\ subscription_tier = "enterprise"
    /\ exporter # Unused
    /\ req["r1"].pc = "done" /\ req["r1"].failure = "persistence"


\* Under every step of the analyze endpoint, refresh and quota rejection
\* included, the lifetime counter and the number of records move together.
C29_CounterFollowsRecords ==
    [][ total_emails_analyzed' - Len(analyses') = total_emails_analyzed - Len(analyses) ]_vars


\* ------------------------------------------------------------ export
\* export_analysis (app.py 318-402) and export_email (api_server.py 544-612)
\* on their own.  A string is a sequence of pieces, so that ', '.join can be
\* computed; a text is the sequence of its <<label, value>> lines.
Str(s) == <<s>>

\* str.upper() on the confidence strings of the model.
upper(s) ==
    CASE s \in {"high", "High"} -> "HIGH"
      [] s = "low" -> "LOW"
      [] OTHER -> s

RECURSIVE join(_, _)
join(sep, list) ==
    IF list = << >> THEN << >>
    ELSE IF Len(list) = 1 THEN list[1]
    ELSE list[1] \o <<sep>> \o join(sep, Tail(list))

\* A nullable JSON column: None, or a list.  `x or []` is the empty list for both
\* None and [].
Null == [null |-> TRUE, list |-> << >>]
List(l) == [null |-> FALSE, list |-> l]
OrEmpty(x) == IF x.null THEN << >> ELSE x.list

\* The clock is <<minute, second>>; strftime('%Y-%m-%d %H:%M') drops the second.
Clock == {<<0, 0>>, <<0, 30>>, <<1, 0>>}
strftime_minute(now) == <<now[1]>>
strftime_second(now) == now

TopicLists ==
    {Null, List(<< >>), List(<<Str("pricing"), Str("demo")>>),
     List(<< <<"pricing", ", ", "demo">> >>)}

\* EmailAnalysis rows (models.py 82-109).
Records ==
    [id : {1}, email_id : {"m1", "m2"}, sender : {"a@x"}, sender_name : {"A"},
     subject : {"Hello"}, snippet : {"s1", "s2"}, optimal_day : {"Tuesday"},
     optimal_hour : {9, 14}, confidence : {"high", "High", "low"}, tone : {"warm"},
     greeting : {"Hi A"}, key_topics : TopicLists, content_hooks : {List(<<Str("demo")>>)},
     cta : {"Reply"}, notes : {"n"}, created_at : Clock]

Formats == {"markdown", "text"}

\* The f-strings of export_analysis, lines 335-385.
export_analysis_content(analysis, format_type, now) ==
    LET md == format_type = "markdown"
    IN  << <<IF md THEN "- **Email:**" ELSE "RECIPIENT:", analysis.sender>>,
           <<IF md THEN "- **Name:**" ELSE "NAME:", analysis.sender_name>>,
           <<IF md THEN "- **Subject:**" ELSE "SUBJECT:", analysis.subject>>,
           <<IF md THEN "- **Best Day:**" ELSE "Day:", analysis.optimal_day>>,
           <<IF md THEN "- **Best Time:**" ELSE "Time:", <<analysis.optimal_hour, ":00">> >>,
           <<IF md THEN "- **Confidence:**" ELSE "Confidence:", upper(analysis.confidence)>>,
           <<IF md THEN "- **Recommended Tone:**" ELSE "Tone:", analysis.tone>>,
           <<IF md THEN "- **Suggested Greeting:**" ELSE "Greeting:", analysis.greeting>>,
           <<IF md THEN "- **Key Topics:**" ELSE "Topics:",
             join(", ", OrEmpty(analysis.key_topics))>>,
           <<IF md THEN "- **Content Hooks:**" ELSE "Hooks:",
             join(", ", OrEmpty(analysis.content_hooks))>>,
           <<IF md THEN "- **Call-to-Action:**" ELSE "CTA:", analysis.cta>>,
           <<IF md THEN "## Notes" ELSE "NOTES:", analysis.notes>>,
           <<IF md THEN "Date:" ELSE "Generated:", strftime_minute(now)>>,
           <<"Analysis ID:", analysis.id>> >>

\* The f-strings of export_email, api_server.py lines 557-610 (the stored
\* email under the column names of the record).
export_email_content(email, format_type, now) ==
    LET md == format_type = "markdown"
        L(m, t) == IF md THEN m ELSE t
    IN  << <<L("- **Email:**", "Email:"), email.sender>>,
           <<L("- **Name:**", "Name:"), email.sender_name>>,
           <<L("- **Subject:**", "Subject:"), email.subject>>,
           <<L("- **Best Day:**", "Best Day:"), email.optimal_day>>,
           <<L("- **Best Time:**", "Best Time:"), <<email.optimal_hour, ":00">> >>,
           <<L("- **Confidence:**", "Confidence:"), upper(email.confidence)>>,
           <<L("- **Recommended Tone:**", "Recommended Tone:"), email.tone>>,
           <<L("- **Suggested Greeting:**", "Suggested Greeting:"), email.greeting>>,
           <<L("- **Key Topics:**", "Key Topics:"), join(", ", email.key_topics.list)>>,
           <<L("- **Content Hooks:**", "Content Hooks:"), join(", ", email.content_hooks.list)>>,
           <<L("- **Call-to-Action:**", "Call-to-Action:"), email.cta>>,
           <<L("## Notes", "NOTES"), email.notes>>,
           <<"Date:", strftime_second(now)>> >>

Rendering(impl, record, format_type, now) ==
    IF impl = "backend" THEN export_analysis_content(record, format_type, now)
    ELSE export_email_content(record, format_type, now)

\* One stored record of one of the two implementations; the standalone
\* server always stores the two lists (api_server.py keeps the merged dicts).
InitExport ==
    /\ Registered
    /\ \E impl \in Implementations, record \in Records :
          /\ impl = "standalone" => ~record.key_topics.null
          /\ exporter = [pc |-> "stored", impl |-> impl, record |-> record,
                         format |-> "markdown", now |-> <<0, 0>>,
                         content |-> << >>, previous |-> << >>]
    /\ profiler = Unused /\ engine = Unused /\ batch = Unused /\ report = Unused
    /\ header = Unused

Later(t, u) == u[1] > t[1] \/ (u[1] = t[1] /\ u[2] >= t[2])

\* A first export in either format, then the same export again at the same
\* or a later time.
Export ==
    /\ exporter.pc \in {"stored", "exported once"}
    /\ \E format_type \in Formats, now \in Clock :
          /\ exporter.pc = "exported once" =>
                format_type = exporter.format /\ Later(exporter.now, now)
          /\ exporter' = [exporter EXCEPT
                !.pc = IF exporter.pc = "stored" THEN "exported once"
                       ELSE "exported twice",
                !.format = format_type, !.now = now,
                !.content = Rendering(exporter.impl, exporter.record, format_type, now),
                !.previous = exporter.content]
    /\ UNCHANGED <<endpoint, profiler, engine, batch, report, header, billing>>

NextExport == Export

SpecExport == InitExport /\ [][NextExport]_vars

\* ------------------------------------------------------------ claim C25
\* C25: for every stored record, two exports of the same record in the same
\* format yield identical text, and the text of either format determines
\* every field of the record (no other record renders to the same text).
C25_ExportDeterministicAndLossless ==
    /\ exporter.pc = "exported twice" => exporter.content = exporter.previous
    /\ exporter.pc \in {"exported once", "exported twice"} =>
          \A other \in Records :
              Rendering(exporter.impl, other, exporter.format, exporter.now)
                  = exporter.content => other = exporter.record

\* The two halves of C25 for the backend, each violated on its own.
C25_SameTextTwice ==
    (exporter.pc = "exported twice" /\ exporter.impl = "backend")
        => exporter.content = exporter.previous

C25_TextDeterminesRecord ==
    (exporter.pc = "exported once" /\ exporter.impl = "backend") =>
        \A other \in Records :
            Rendering("backend", other, exporter.format, exporter.now)
                = exporter.content => other = exporter.record

\* What does hold: the text is a function of record, format and export time,
\* and it determines the fields it prints as they are.
Printed == {"id", "sender", "sender_name", "subject", "optimal_day", "optimal_hour",
            "tone", "greeting", "cta", "notes"}

C25_PrintedFieldsRecovered ==
    exporter.pc \in {"exported once", "exported twice"} =>
        /\ exporter.content
              = Rendering(exporter.impl, exporter.record, exporter.format, exporter.now)
        /\ \A other \in Records :
              Rendering(exporter.impl, other, exporter.format, exporter.now)
                  = exporter.content =>
                     \A f \in Printed \ (IF exporter.impl = "backend" THEN {} ELSE {"id"}) :
                         other[f] = exporter.record[f]


\* ------------------------------------------------------------ headers
\* The header normalisation of fetch_emails (gmail_service.py 159-187) on
\* its own.  A header value is a sequence of characters; a header is absent
\* or present with a value.
MaxHeader == 4
Alphabet == {"a", " ", "<", ">", "\""}
Strings(n) == UNION {[1..k -> Alphabet] : k \in 0..n}

Absent == [present |-> FALSE, value |-> << >>]
Present(v) == [present |-> TRUE, value |-> v]

\* headers.get(name, default)
HeaderGet(h, default) == IF h.present THEN h.value ELSE default

\* `c in s`
Contains(s, c) == \E i \in 1..Len(s) : s[i] = c

First(s, c) == CHOOSE i \in 1..Len(s) : s[i] = c /\ \A j \in 1..(i - 1) : s[j] # c

\* s.split(c)[0] and s.split(c)[1]; the latter only where c is in s.
Piece0(s, c) == IF Contains(s, c) THEN SubSeq(s, 1, First(s, c) - 1) ELSE s
Piece1(s, c) == Piece0(SubSeq(s, First(s, c) + 1, Len(s)), c)

RECURSIVE lstrip(_, _)
lstrip(s, c) == IF s # << >> /\ Head(s) = c THEN lstrip(Tail(s), c) ELSE s

RECURSIVE rstrip(_, _)
rstrip(s, c) ==
    IF s # << >> /\ s[Len(s)] = c THEN rstrip(SubSeq(s, 1, Len(s) - 1), c) ELSE s

\* s.strip() for c = ' ' and s.strip('"') for c = '"'
strip(s, c) == rstrip(lstrip(s, c), c)

\* s.split(): the whitespace-delimited tokens; [0] raises IndexError when
\* there is none.
NoToken(s) == lstrip(s, " ") = << >>
FirstToken(s) == Piece0(lstrip(s, " "), " ")

Unknown == <<"unknown">>
NoSubject == <<"(No Subject)">>

Skipped == [pc |-> "skipped", raised |-> TRUE, email |-> << >>, sender_name |-> << >>,
            subject |-> << >>]
Appended(email, sender_name, subject) ==
    [pc |-> "appended", raised |-> FALSE, email |-> email, sender_name |-> sender_name,
     subject |-> subject]

\* Lines 162-168 and 170, inside the try of line 152: an exception skips the
\* message (lines 184-186).
email_data(From, Subject) ==
    LET sender == HeaderGet(From, << >>)
        subject == HeaderGet(Subject, NoSubject)
    IN  IF Contains(sender, "<")
        THEN Appended(Piece0(Piece1(sender, "<"), ">"),
                      strip(strip(Piece0(sender, "<"), " "), "\""), subject)
        ELSE IF sender = << >> THEN Appended(Unknown, sender, subject)
        ELSE IF NoToken(sender) THEN Skipped
        ELSE Appended(FirstToken(sender), sender, subject)

InitHeader ==
    /\ Registered
    /\ \E From \in {Absent} \cup {Present(v) : v \in Strings(MaxHeader)},
          Subject \in {Absent, Present(<<"a">>)} :
          header = [pc |-> "fetched", From |-> From, Subject |-> Subject,
                    out |-> Appended(<< >>, << >>, << >>)]
    /\ profiler = Unused /\ engine = Unused /\ batch = Unused /\ report = Unused
    /\ exporter = Unused

Normalize ==
    /\ header.pc = "fetched"
    /\ LET out == email_data(header.From, header.Subject)
       IN  header' = [header EXCEPT !.pc = out.pc, !.out = out]
    /\ UNCHANGED <<endpoint, profiler, engine, batch, report, exporter, billing>>

NextHeader == Normalize

SpecHeader == InitHeader /\ [][NextHeader]_vars


\* ------------------------------------------------------------ claim C26
\* The rule of the specification, stated on positions of the header value.
\* t is s with every leading and trailing c removed.
Trimmed(s, c, t) ==
    \E a \in 1..(Len(s) + 1), b \in 0..Len(s) :
        /\ t = SubSeq(s, a, b)
        /\ \A k \in 1..Len(s) : (k < a \/ k > b) => s[k] = c
        /\ t # << >> => (t[1] # c /\ t[Len(t)] # c)

\* e is the text between the first '<' of s and the next bracket or the end.
Bracketed(s, e) ==
    \E i \in 1..Len(s), j \in 0..Len(s) :
        /\ i = First(s, "<") /\ j >= i
        /\ e = SubSeq(s, i + 1, j)
        /\ \A k \in (i + 1)..j : s[k] \notin {"<", ">"}
        /\ j < Len(s) => s[j + 1] \in {"<", ">"}

\* n is the text before the first '<', trimmed, then with the quotes stripped.
DisplayName(s, n) ==
    \E t \in Strings(Len(s)) :
        /\ Trimmed(SubSeq(s, 1, First(s, "<") - 1), " ", t)
        /\ Trimmed(t, "\"", n)

\* e is the first whitespace-delimited token of s.
LeadingToken(s, e) ==
    \E a \in 1..Len(s), b \in 1..Len(s) :
        /\ e = SubSeq(s, a, b) /\ a <= b
        /\ \A k \in 1..(a - 1) : s[k] = " "
        /\ \A k \in a..b : s[k] # " "
        /\ b < Len(s) => s[b + 1] = " "

FollowsRule(From, Subject, out) ==
    LET s == IF From.present THEN From.value ELSE << >>
    IN  /\ ~out.raised
        /\ IF Contains(s, "<")
           THEN Bracketed(s, out.email) /\ DisplayName(s, out.sender_name)
           ELSE /\ out.sender_name = s
                /\ IF s = << >> THEN out.email = Unknown
                   ELSE LeadingToken(s, out.email)
        /\ out.subject = IF Subject.present THEN Subject.value ELSE NoSubject

Normalized == header.pc \in {"appended", "skipped"}

\* C26: for every value of the From header, absent, empty and whitespace-only
\* included, the normalisation does not raise and the message it yields has
\* the address, the display name and the subject of the rule.
C26_EveryFromHeaderNormalized ==
    Normalized => FollowsRule(header.From, header.Subject, header.out)

WhitespaceOnly(From) ==
    From.present /\ From.value # << >> /\ \A k \in 1..Len(From.value) : From.value[k] = " "

\* What does hold: the rule is followed for every header value that is not
\* made of whitespace only, and exactly those raise.
C26_RuleUnlessWhitespaceOnly ==
    Normalized =>
        IF WhitespaceOnly(header.From) THEN header.out.raised
        ELSE FollowsRule(header.From, header.Subject, header.out)

C26_QuotedNameSeen ==
    /\ header.pc = "appended" /\ header.From = Present(<<"\"", "a", "\"", "<">>)
    /\ header.out.sender_name = <<"a">> /\ header.out.email = << >>
    /\ header.out.subject = NoSubject

====
